---- MODULE Spec2Model ----
(***************************************************************************)
(* SS58 address codec of @chainflip/utils (ss58.ts): encode and decode of  *)
(* a checksummed, network-tagged 32-byte account identifier, together with *)
(* the base-58 collaborator it delegates to.                               *)
(***************************************************************************)
EXTENDS Integers, Sequences, FiniteSets, TLC

(***************************************************************************)
(* Module constants (ss58.ts lines 5-9).                                   *)
(***************************************************************************)
\* Slips of the constants: the data length taken with the checksum, the
\* largest format taken one too high, a reserved value left out, the simple
\* form taken to hold seven bits.
DATA_LENGTH_WithChecksum == 32 + 2
MAX_PREFIX_OffByOne == 16383 + 1
RESERVED_PREFIXES_Short == <<46>>
MAX_SIMPLE_PREFIX_SevenBits == 63 + 64

CHECKSUM_BYTE_LENGTH == 2
DATA_LENGTH == 32
MAX_SIMPLE_PREFIX == 63
MAX_PREFIX == 16383
RESERVED_PREFIXES == <<46, 47>>

(***************************************************************************)
(* JavaScript values the codec meets.  `undefined` is what indexing an     *)
(* array past its end yields; it is no byte and no format.                 *)
(***************************************************************************)
undefined == -65536

\* arr[i] with JavaScript's 0-based index: undefined outside the array.
At(arr, i) == IF i >= 0 /\ i < Len(arr) THEN arr[i + 1] ELSE undefined

\* ToInt32 as the bitwise operators apply it to their operands.
ToInt32(x) == IF x = undefined THEN 0 ELSE x

\* Bitwise and / or of two non-negative values of at most `width` bits:
\* the low half and the high half of the bits are combined separately.
RECURSIVE AndBits(_, _, _)
AndBits(a, b, width) ==
    IF width = 1 THEN (IF a = 1 /\ b = 1 THEN 1 ELSE 0)
    ELSE LET low == width \div 2
         IN  AndBits(a % (2 ^ low), b % (2 ^ low), low)
               + (2 ^ low) * AndBits(a \div (2 ^ low), b \div (2 ^ low), width - low)

RECURSIVE OrBits(_, _, _)
OrBits(a, b, width) ==
    IF width = 1 THEN (IF a = 1 \/ b = 1 THEN 1 ELSE 0)
    ELSE LET low == width \div 2
         IN  OrBits(a % (2 ^ low), b % (2 ^ low), low)
               + (2 ^ low) * OrBits(a \div (2 ^ low), b \div (2 ^ low), width - low)

\* The bitwise operators work on 32-bit integers; the values here are
\* non-negative and below 2^31.
INT_BITS == 31

\* a & b, a | b, a << n, a >> n on the non-negative int32 values used here.
BitAnd(a, b) == AndBits(ToInt32(a), ToInt32(b), INT_BITS)
BitOr(a, b) == OrBits(ToInt32(a), ToInt32(b), INT_BITS)
Shl(a, n) == ToInt32(a) * (2 ^ n)
Shr(a, n) == ToInt32(a) \div (2 ^ n)

\* Array.prototype.includes
Includes(arr, x) == \E i \in 1..Len(arr) : arr[i] = x

\* arr.slice(start) for start >= 0
SliceFrom(arr, start) ==
    IF start >= Len(arr) THEN <<>> ELSE SubSeq(arr, start + 1, Len(arr))

\* arr.slice(0, end) for end >= 0
SliceTo(arr, end) ==
    IF end >= Len(arr) THEN arr ELSE SubSeq(arr, 1, end)

Max(a, b) == IF a > b THEN a ELSE b

\* arr.splice(-n): the removed tail (returned) and what is left in arr.
SpliceRemoved(arr, n) == SliceFrom(arr, Max(Len(arr) - n, 0))
\* slice(-n) in place of splice(-n): the array keeps its tail.
SpliceRest_Kept(arr, n) == arr

SpliceRest(arr, n) == SliceTo(arr, Max(Len(arr) - n, 0))

(***************************************************************************)
(* assert(condition, message, Constructor = Error) of ./assertion: throws  *)
(* new Constructor(message) when the condition is false.  A thrown error   *)
(* is the record of its constructor, its message text before the           *)
(* interpolated value, and the interpolated values.                        *)
(***************************************************************************)
NoError == [name |-> "", message |-> "", detail |-> <<>>]
Thrown(name, message, detail) == [name |-> name, message |-> message, detail |-> detail]

(***************************************************************************)
(* base58 collaborator (./base58): big-endian base conversion between      *)
(* bytes and digits of the 58-character alphabet, leading zero bytes       *)
(* mapped to leading '1' characters.                                       *)
(***************************************************************************)
CHARSET ==
    << "1", "2", "3", "4", "5", "6", "7", "8", "9",
       "A", "B", "C", "D", "E", "F", "G", "H", "J", "K", "L", "M", "N",
       "P", "Q", "R", "S", "T", "U", "V", "W", "X", "Y", "Z",
       "a", "b", "c", "d", "e", "f", "g", "h", "i", "j", "k", "m", "n",
       "o", "p", "q", "r", "s", "t", "u", "v", "w", "x", "y", "z" >>

CharIndex(c) == CHOOSE i \in 1..Len(CHARSET) : CHARSET[i] = c

\* b, once a is evaluated.  A loop below runs over the two halves of its
\* range one after the other; the state the first half leaves is evaluated
\* before the second half starts.
Then(a, b) == IF a = a THEN b ELSE b

\* Push the remaining carry as little-endian digits.
RECURSIVE CarryDigits(_, _)
CarryDigits(carry, toBase) ==
    IF carry = 0 THEN <<>>
    ELSE <<carry % toBase>> \o CarryDigits(carry \div toBase, toBase)

\* for (i = lo; i <= hi; i++) { carry += result[i] * fromBase;
\*   out.push(carry % toBase); carry = floor(carry / toBase) }
\* over the little-endian digits of result, st = [carry, out].
RECURSIVE MulAddLoop(_, _, _, _, _, _)
MulAddLoop(result, lo, hi, st, fromBase, toBase) ==
    IF lo > hi THEN st
    ELSE IF lo = hi
    THEN LET c == st.carry + result[lo] * fromBase
         IN  [carry |-> c \div toBase, out |-> Append(st.out, c % toBase)]
    ELSE LET mid == (lo + hi) \div 2
             left == MulAddLoop(result, lo, mid, st, fromBase, toBase)
         IN  Then(left, MulAddLoop(result, mid + 1, hi, left, fromBase, toBase))

\* result * fromBase + carry over the little-endian digits of result.
MulAdd(result, carry, fromBase, toBase) ==
    LET st == MulAddLoop(result, 1, Len(result), [carry |-> carry, out |-> <<>>],
                         fromBase, toBase)
    IN  st.out \o CarryDigits(st.carry, toBase)

\* for (i = lo; i <= hi; i++) acc = acc * fromBase + digits[i]
RECURSIVE ConvertDigits(_, _, _, _, _, _)
ConvertDigits(digits, lo, hi, acc, fromBase, toBase) ==
    IF lo > hi THEN acc
    ELSE IF lo = hi THEN MulAdd(acc, digits[lo], fromBase, toBase)
    ELSE LET mid == (lo + hi) \div 2
             left == ConvertDigits(digits, lo, mid, acc, fromBase, toBase)
         IN  Then(left, ConvertDigits(digits, mid + 1, hi, left, fromBase, toBase))

\* The number of zero digits in front of the first non-zero digit.
LeadingZeros(digits) ==
    LET nonZero == { i \in 1..Len(digits) : digits[i] # 0 }
    IN  IF nonZero = {} THEN Len(digits)
        ELSE (CHOOSE i \in nonZero : \A j \in nonZero : i <= j) - 1

Reverse(s) == [i \in 1..Len(s) |-> s[Len(s) + 1 - i]]

\* Big-endian digits in fromBase to big-endian digits in toBase.
ConvertBase(digits, fromBase, toBase) ==
    [i \in 1..LeadingZeros(digits) |-> 0]
        \o Reverse(ConvertDigits(digits, 1, Len(digits), <<>>, fromBase, toBase))

Base58Encode(bytes) ==
    LET ds == ConvertBase(bytes, 256, 58)
    IN  [i \in 1..Len(ds) |-> CHARSET[ds[i] + 1]]

Base58Valid(text) == \A i \in 1..Len(text) : Includes(CHARSET, text[i])

Base58Decode(text) ==
    ConvertBase([i \in 1..Len(text) |-> CharIndex(text[i]) - 1], 58, 256)

(***************************************************************************)
(* blake2b of @noble/hashes is an external hash: a deterministic digest    *)
(* that depends on every input byte and on its position.  The codec uses   *)
(* nothing else of it.                                                     *)
(***************************************************************************)
HASH_MODULUS == 65521

\* for (i = lo; i <= hi; i++) h = (h * 251 + bytes[i] + 1) % HASH_MODULUS
RECURSIVE Absorb(_, _, _, _)
Absorb(bytes, lo, hi, h) ==
    IF lo > hi THEN h
    ELSE IF lo = hi THEN (h * 251 + bytes[lo] + 1) % HASH_MODULUS
    ELSE LET mid == (lo + hi) \div 2
             left == Absorb(bytes, lo, mid, h)
         IN  Then(left, Absorb(bytes, mid + 1, hi, left))

blake2b(bytes) ==
    LET h == Absorb(bytes, 1, Len(bytes), Len(bytes) + 1)
    IN  << h % 256, h \div 256, (h * 7 + 3) % 256, (h \div 16) % 256 >>

\* A checksum over the bytes alone, without the tag in front of them.
computeChecksum_NoTag(data) ==
    SliceTo(blake2b(data), CHECKSUM_BYTE_LENGTH)

\* computeChecksum (lines 11-15)
computeChecksum(data) ==
    LET checksumPrefix == <<83, 83, 53, 56, 80, 82, 69>>
        checksum == blake2b(checksumPrefix \o data)
    IN  SliceTo(checksum, CHECKSUM_BYTE_LENGTH)


(***************************************************************************)
(* Prefix unpacking of decode (lines 22-32) over the decoded bytes.        *)
(***************************************************************************)
\* Form selection that looks at bit 7 of the first byte.
UnpackFormatLen_Bit7(decodedBytes) ==
    IF BitAnd(At(decodedBytes, 0), 128) # 0 THEN 2 ELSE 1

UnpackFormatLen(decodedBytes) ==
    IF BitAnd(At(decodedBytes, 0), 64) # 0 THEN 2 ELSE 1

\* Unpacking that forgets to mask the second byte before shifting it.
UnpackFormat_Unmasked(decodedBytes) ==
    IF BitAnd(At(decodedBytes, 0), 64) # 0
    THEN BitOr(BitOr(Shl(BitAnd(At(decodedBytes, 0), 63), 2),
                     Shr(At(decodedBytes, 1), 6)),
               Shl(At(decodedBytes, 1), 8))
    ELSE At(decodedBytes, 0)

\* Unpacking that shifts the high bits one place too far.
UnpackFormat_HighShift(decodedBytes) ==
    IF BitAnd(At(decodedBytes, 0), 64) # 0
    THEN BitOr(BitOr(Shl(BitAnd(At(decodedBytes, 0), 63), 2),
                     Shr(At(decodedBytes, 1), 6)),
               Shl(BitAnd(At(decodedBytes, 1), 63), 9))
    ELSE At(decodedBytes, 0)

UnpackFormat(decodedBytes) ==
    IF BitAnd(At(decodedBytes, 0), 64) # 0
    THEN BitOr(BitOr(Shl(BitAnd(At(decodedBytes, 0), 63), 2),
                     Shr(At(decodedBytes, 1), 6)),
               Shl(BitAnd(At(decodedBytes, 1), 63), 8))
    ELSE At(decodedBytes, 0)

(***************************************************************************)
(* Prefix packing of encode (lines 63-72).                                 *)
(***************************************************************************)
\* Packing that takes the simple form only below MAX_SIMPLE_PREFIX.
PackPrefix_StrictBoundary(ss58Format) ==
    IF ss58Format < MAX_SIMPLE_PREFIX
    THEN <<ss58Format>>
    ELSE << BitOr(Shr(BitAnd(ss58Format, 252), 2), 64),
            BitOr(Shr(ss58Format, 8), Shl(BitAnd(ss58Format, 3), 6)) >>

\* Packing that leaves out the extended-form marker of the first byte.
PackPrefix_NoMarker(ss58Format) ==
    IF ss58Format <= MAX_SIMPLE_PREFIX
    THEN <<ss58Format>>
    ELSE << Shr(BitAnd(ss58Format, 252), 2),
            BitOr(Shr(ss58Format, 8), Shl(BitAnd(ss58Format, 3), 6)) >>

PackPrefix(ss58Format) ==
    IF ss58Format <= MAX_SIMPLE_PREFIX
    THEN <<ss58Format>>
    ELSE << BitOr(Shr(BitAnd(ss58Format, 252), 2), 64),
            BitOr(Shr(ss58Format, 8), Shl(BitAnd(ss58Format, 3), 6)) >>

(***************************************************************************)
(* Address = { data, ss58Format } (line 17).                               *)
(***************************************************************************)
Address(data, ss58Format) == [data |-> data, ss58Format |-> ss58Format]
NoAddress == Address(<<>>, undefined)

(***************************************************************************)
(* decode (lines 19-56).  The record holds the locals of the call as far   *)
(* as the call got, the step it ended at, the error it threw and the       *)
(* address it returned.  decodedBytes is the array base58.decode returned, *)
(* payload what splice left of it.                                         *)
(***************************************************************************)
DecodeRecord(input, step, error, decodedBytes, ss58FormatLen, ss58Format, checksumBytes, payload, data, checksum, value) ==
    [ called |-> TRUE, input |-> input, step |-> step, error |-> error,
      returned |-> (error = NoError),
      decodedBytes |-> decodedBytes, ss58FormatLen |-> ss58FormatLen,
      ss58Format |-> ss58Format, checksumBytes |-> checksumBytes,
      payload |-> payload, data |-> data, checksum |-> checksum, value |-> value ]

DecodeNotCalled ==
    [ DecodeRecord(<<>>, "", NoError, <<>>, 0, undefined, <<>>, <<>>, <<>>, <<>>, NoAddress)
        EXCEPT !.called = FALSE, !.returned = FALSE ]

\* decode that compares the first checksum byte only.
decodeBytes_FirstByteOnly(input, decodedBytes) ==
    LET ss58FormatLen == UnpackFormatLen(decodedBytes)
        ss58Format == UnpackFormat(decodedBytes)
        checksumBytes == SpliceRemoved(decodedBytes, CHECKSUM_BYTE_LENGTH)
        payload == SpliceRest(decodedBytes, CHECKSUM_BYTE_LENGTH)
        data == SliceFrom(payload, ss58FormatLen)
        checksum == computeChecksum(payload)
    IN  IF Includes(RESERVED_PREFIXES, ss58Format)
        THEN DecodeRecord(input, "reserved",
                          Thrown("Error", "Reserved prefix", <<ss58Format>>),
                          decodedBytes, ss58FormatLen, ss58Format,
                          <<>>, <<>>, <<>>, <<>>, NoAddress)
        ELSE IF Len(data) # DATA_LENGTH
        THEN DecodeRecord(input, "length",
                          Thrown("Error", "Invalid data length", <<Len(data)>>),
                          decodedBytes, ss58FormatLen, ss58Format,
                          checksumBytes, payload, data, <<>>, NoAddress)
        ELSE IF At(checksumBytes, 0) # At(checksum, 0)
        THEN DecodeRecord(input, "checksum0",
                          Thrown("Error", "Invalid checksum",
                                 <<At(checksumBytes, 0), At(checksum, 0)>>),
                          decodedBytes, ss58FormatLen, ss58Format,
                          checksumBytes, payload, data, checksum, NoAddress)
        ELSE DecodeRecord(input, "return", NoError,
                          decodedBytes, ss58FormatLen, ss58Format,
                          checksumBytes, payload, data, checksum,
                          Address(data, ss58Format))

\* decode that compares no checksum byte.
decodeBytes_Unverified(input, decodedBytes) ==
    LET r == decodeBytes_FirstByteOnly(input, decodedBytes)
    IN  IF r.step = "checksum0"
        THEN [r EXCEPT !.step = "return", !.error = NoError, !.returned = TRUE,
                       !.value = Address(r.data, r.ss58Format)]
        ELSE r

\* decode after base58.decode returned decodedBytes (lines 22-55).
decodeBytes(input, decodedBytes) ==
    LET ss58FormatLen == UnpackFormatLen(decodedBytes)
        ss58Format == UnpackFormat(decodedBytes)
        checksumBytes == SpliceRemoved(decodedBytes, CHECKSUM_BYTE_LENGTH)
        payload == SpliceRest(decodedBytes, CHECKSUM_BYTE_LENGTH)
        data == SliceFrom(payload, ss58FormatLen)
        checksum == computeChecksum(payload)
    IN  IF Includes(RESERVED_PREFIXES, ss58Format)
        THEN DecodeRecord(input, "reserved",
                          Thrown("Error", "Reserved prefix", <<ss58Format>>),
                          decodedBytes, ss58FormatLen, ss58Format,
                          <<>>, <<>>, <<>>, <<>>, NoAddress)
        ELSE IF Len(data) # DATA_LENGTH
        THEN DecodeRecord(input, "length",
                          Thrown("Error", "Invalid data length", <<Len(data)>>),
                          decodedBytes, ss58FormatLen, ss58Format,
                          checksumBytes, payload, data, <<>>, NoAddress)
        ELSE IF At(checksumBytes, 0) # At(checksum, 0)
        THEN DecodeRecord(input, "checksum0",
                          Thrown("Error", "Invalid checksum",
                                 <<At(checksumBytes, 0), At(checksum, 0)>>),
                          decodedBytes, ss58FormatLen, ss58Format,
                          checksumBytes, payload, data, checksum, NoAddress)
        ELSE IF At(checksumBytes, 1) # At(checksum, 1)
        THEN DecodeRecord(input, "checksum1",
                          Thrown("Error", "Invalid checksum",
                                 <<At(checksumBytes, 1), At(checksum, 1)>>),
                          decodedBytes, ss58FormatLen, ss58Format,
                          checksumBytes, payload, data, checksum, NoAddress)
        ELSE DecodeRecord(input, "return", NoError,
                          decodedBytes, ss58FormatLen, ss58Format,
                          checksumBytes, payload, data, checksum,
                          Address(data, ss58Format))

\* decode: base58.decode throws on a character outside the alphabet, and
\* the error leaves decode as it is.
decode(input) ==
    IF ~Base58Valid(input)
    THEN DecodeRecord(input, "base58", Thrown("Error", "Invalid input", <<>>),
                      <<>>, 0, undefined, <<>>, <<>>, <<>>, <<>>, NoAddress)
    ELSE decodeBytes(input, Base58Decode(input))

(***************************************************************************)
(* encode (lines 58-77).  wire is the array handed to base58.encode.       *)
(***************************************************************************)
EncodeRecord(address, step, error, prefixBytes, checksum, wire, text) ==
    [ called |-> TRUE, address |-> address, step |-> step, error |-> error,
      returned |-> (error = NoError),
      prefixBytes |-> prefixBytes, checksum |-> checksum, wire |-> wire,
      text |-> text ]

EncodeNotCalled ==
    [ EncodeRecord(NoAddress, "", NoError, <<>>, <<>>, <<>>, <<>>)
        EXCEPT !.called = FALSE, !.returned = FALSE ]

encode(address) ==
    LET data == address.data
        ss58Format == address.ss58Format
        prefixBytes == PackPrefix(ss58Format)
        checksum == computeChecksum(prefixBytes \o data)
        wire == prefixBytes \o data \o checksum
    IN  IF Len(data) # DATA_LENGTH
        THEN EncodeRecord(address, "length",
                          Thrown("RangeError", "Invalid data length", <<Len(data)>>),
                          <<>>, <<>>, <<>>, <<>>)
        ELSE IF ~(ss58Format >= 0 /\ ss58Format <= MAX_PREFIX)
        THEN EncodeRecord(address, "range",
                          Thrown("RangeError", "Invalid prefix", <<ss58Format>>),
                          <<>>, <<>>, <<>>, <<>>)
        ELSE IF Includes(RESERVED_PREFIXES, ss58Format)
        THEN EncodeRecord(address, "reserved",
                          Thrown("Error", "Reserved prefix", <<ss58Format>>),
                          <<>>, <<>>, <<>>, <<>>)
        ELSE EncodeRecord(address, "return", NoError,
                          prefixBytes, checksum, wire, Base58Encode(wire))

(***************************************************************************)
(* Inputs of the calls.                                                    *)
(* MaxPattern + 1 byte patterns fill the data; data lengths range over     *)
(* DATA_LENGTH - MaxDelta .. DATA_LENGTH + MaxDelta and the empty array.   *)
(***************************************************************************)
MaxPattern == 1
MaxDelta == 2

\* Pattern 0 is all zero bytes; the others vary with the position.
Pattern(k, len) == [i \in 1..len |-> (k * (i * 37 + 218)) % 256]

DataLengths == {0} \cup ((DATA_LENGTH - MaxDelta)..(DATA_LENGTH + MaxDelta))

DataSamples == { Pattern(k, len) : k \in 0..MaxPattern, len \in DataLengths }

\* Formats a caller passes to encode: both ends of the range, the simple /
\* extended boundary, the reserved values and their neighbours, and values
\* outside the range.
FormatSamples ==
    { -1, 0, 1, 2, 42, 45, 46, 47, 48, 63, 64, 65, 127, 128, 174, 191, 192,
      255, 256, 1023, 4095, 4096, 8191, 16382, 16383, 16384, 16430 }

\* Prefix bytes as they can stand in front of decoded bytes: every first
\* byte class (bit 6 clear or set, bit 7 clear or set) and the reserved
\* formats in both forms.
PrefixSamples ==
    { <<0>>, <<46>>, <<47>>, <<63>>, <<128>>, <<174>>,
      <<64, 0>>, <<75, 128>>, <<75, 192>>, <<203, 128>>, <<80, 0>>, <<96, 0>>,
      <<127, 255>>, <<255, 255>> }

ChecksumForms == {"good", "bad0", "bad1", "bad01"}

Corrupt(b) == (b + 1) % 256

\* The two trailing bytes of a wire: the checksum of the bytes before them,
\* or that checksum with its first, second or both bytes changed.
Trailer(bytes, form) ==
    LET c == computeChecksum(bytes)
    IN  << IF form \in {"bad0", "bad01"} THEN Corrupt(c[1]) ELSE c[1],
           IF form \in {"bad1", "bad01"} THEN Corrupt(c[2]) ELSE c[2] >>

\* Byte arrays too short to hold prefix, data and checksum side by side.
ShortWires ==
    { <<>>, <<5>>, <<46>>, <<64>>, <<75>>, <<5, 6>>, <<47, 1>>, <<75, 128>>,
      <<64, 1>>, <<1, 2, 3>>, <<75, 192, 3>>, <<64, 1, 2>>, <<64, 1, 2, 3>> }

\* A wire as a sender lays it out: prefix bytes, data, trailing bytes.
Wire(p, d, form) == p \o d \o Trailer(p \o d, form)

\* Texts with a character outside the alphabet.
InvalidTexts == { <<"0">>, <<"1", "O", "2">>, <<"5", "G", "l">>, <<"I", "I">> }

(***************************************************************************)
(* State: the caller's argument, where the caller stands, and the record   *)
(* of its encode call and of its decode call.                              *)
(***************************************************************************)
\* scope holds the bindings of the module (lines 5-9), ran the statements
\* each call has executed so far and out what toEncodedAddress delivered.
VARIABLES pc, arg, enc, dec, scope, ran, out

vars == <<pc, arg, enc, dec, scope, ran, out>>

\* What a call of toEncodedAddress delivers: the object { [key]: value } it
\* returns, or the error that leaves it.
Encoded(key, value) ==
    [called |-> TRUE, returned |-> TRUE, key |-> key, value |-> value, error |-> NoError]
Rejected(error) ==
    [called |-> TRUE, returned |-> FALSE, key |-> "", value |-> <<>>, error |-> error]
NotEncoded ==
    [called |-> FALSE, returned |-> FALSE, key |-> "", value |-> <<>>, error |-> NoError]

ModuleScope ==
    [ CHECKSUM_BYTE_LENGTH |-> CHECKSUM_BYTE_LENGTH, DATA_LENGTH |-> DATA_LENGTH,
      MAX_SIMPLE_PREFIX |-> MAX_SIMPLE_PREFIX, MAX_PREFIX |-> MAX_PREFIX,
      RESERVED_PREFIXES |-> RESERVED_PREFIXES ]

Argument(op, address, text) == [op |-> op, address |-> address, text |-> text]

Init ==
    /\ \/ /\ pc = "encode"
          /\ \E d \in DataSamples, f \in FormatSamples :
                arg = Argument("encode", Address(d, f), <<>>)
       \/ /\ pc = "decode"
          /\ \/ \E p \in PrefixSamples, d \in DataSamples, form \in ChecksumForms :
                   arg = Argument("decode", NoAddress, Base58Encode(Wire(p, d, form)))
             \/ \E w \in ShortWires :
                   arg = Argument("decode", NoAddress, Base58Encode(w))
             \/ \E t \in InvalidTexts :
                   arg = Argument("decode", NoAddress, t)
    /\ enc = EncodeNotCalled
    /\ dec = DecodeNotCalled
    /\ scope = ModuleScope
    /\ ran = <<>>
    /\ out = NotEncoded

\* The caller encodes its address.
Encode ==
    /\ pc = "encode"
    /\ enc' = encode(arg.address)
    /\ pc' = "encoded"
    /\ UNCHANGED <<arg, dec, scope, ran, out>>

\* The caller decodes the text encode returned.
DecodeEncoded ==
    /\ pc = "encoded"
    /\ enc.returned
    /\ dec' = decode(enc.text)
    /\ pc' = "done"
    /\ UNCHANGED <<arg, enc, scope, ran, out>>

\* The caller decodes its text.
Decode ==
    /\ pc = "decode"
    /\ dec' = decode(arg.text)
    /\ pc' = "decoded"
    /\ UNCHANGED <<arg, enc, scope, ran, out>>

\* The caller encodes the address decode returned.
EncodeDecoded ==
    /\ pc = "decoded"
    /\ dec.returned
    /\ enc' = encode(dec.value)
    /\ pc' = "done"
    /\ UNCHANGED <<arg, dec, scope, ran, out>>

Next == Encode \/ DecodeEncoded \/ Decode \/ EncodeDecoded

Spec == Init /\ [][Next]_vars

(***************************************************************************)
(* The prefix code alone, over every format of the range: the packing of   *)
(* encode (lines 63-72) followed by the unpacking of decode (lines 22-32)  *)
(* on the packed bytes in front of the data.                               *)
(***************************************************************************)
PrefixInit ==
    /\ pc = "pack"
    /\ \E f \in 0..16383 :
          arg = Argument("prefix", Address(Pattern(1, DATA_LENGTH), f), <<>>)
    /\ enc = EncodeNotCalled
    /\ dec = DecodeNotCalled
    /\ scope = ModuleScope
    /\ ran = <<>>
    /\ out = NotEncoded

Pack ==
    /\ pc = "pack"
    /\ enc' = [EncodeNotCalled EXCEPT !.address = arg.address,
                                      !.prefixBytes = PackPrefix(arg.address.ss58Format)]
    /\ pc' = "packed"
    /\ UNCHANGED <<arg, dec, scope, ran, out>>

Unpack ==
    /\ pc = "packed"
    /\ LET decodedBytes == enc.prefixBytes \o enc.address.data
       IN  dec' = [DecodeNotCalled EXCEPT !.decodedBytes = decodedBytes,
                                          !.ss58FormatLen = UnpackFormatLen(decodedBytes),
                                          !.ss58Format = UnpackFormat(decodedBytes)]
    /\ pc' = "unpacked"
    /\ UNCHANGED <<arg, enc, scope, ran, out>>

PrefixNext == Pack \/ Unpack

PrefixSpec == PrefixInit /\ [][PrefixNext]_vars

(***************************************************************************)
(* The unpacking of decode (lines 22-32) alone, over every pair of first   *)
(* bytes a decoded wire can start with.                                    *)
(***************************************************************************)
UnpackInit ==
    /\ pc = "packed"
    /\ arg = Argument("unpack", NoAddress, <<>>)
    /\ \E b0 \in 0..255, b1 \in 0..255 :
          enc = [EncodeNotCalled EXCEPT !.prefixBytes = <<b0, b1>>]
    /\ dec = DecodeNotCalled
    /\ scope = ModuleScope
    /\ ran = <<>>
    /\ out = NotEncoded

UnpackNext == Unpack

UnpackSpec == UnpackInit /\ [][UnpackNext]_vars

(***************************************************************************)
(* The calls statement by statement.  Any number of callers are inside     *)
(* encode or decode at once; a step is one statement of one call, and the  *)
(* steps of the calls interleave in every order.  pc, arg, enc, dec and    *)
(* ran hold one entry for each caller; enc[c] and dec[c] are the locals of *)
(* the call of caller c.                                                   *)
(***************************************************************************)
NumCallers == 2

Callers == 1..NumCallers

\* Locals kept in one place for all the calls, not in the call's own record.
Local_Hoisted(frames, c, fr) == [x \in DOMAIN frames |-> fr]

\* const / let inside the function body: the locals belong to the call.
Local(frames, c, fr) == [frames EXCEPT ![c] = fr]

\* throw new Constructor(message) out of the call.
Throw(fr, step, error) == [fr EXCEPT !.step = step, !.error = error]

\* The caller moves on to position `at` after the statement `stmt` has run.
Advance(c, stmt, at) ==
    /\ pc' = [pc EXCEPT ![c] = at]
    /\ ran' = [ran EXCEPT ![c] = Append(@, stmt)]

\* line 20: const decodedBytes = base58.decode(input)
DecodeBase58(c) ==
    /\ pc[c] = "decode"
    /\ LET fr == [DecodeNotCalled EXCEPT !.called = TRUE, !.input = arg[c].text,
                                         !.step = "base58"]
       IN  IF ~Base58Valid(arg[c].text)
           THEN /\ dec' = Local(dec, c, Throw(fr, "base58",
                                              Thrown("Error", "Invalid input", <<>>)))
                /\ Advance(c, "base58", "thrown")
           ELSE /\ dec' = Local(dec, c, [fr EXCEPT !.decodedBytes =
                                                      Base58Decode(arg[c].text)])
                /\ Advance(c, "base58", "decode.unpack")
    /\ UNCHANGED <<arg, enc, scope, out>>

\* Unpacking that goes on to the splice and leaves the reserved check out.
DecodeUnpack_SkipsReserved(c) ==
    /\ pc[c] = "decode.unpack"
    /\ dec' = Local(dec, c,
                    [dec[c] EXCEPT !.step = "unpack",
                                   !.ss58FormatLen = UnpackFormatLen(dec[c].decodedBytes),
                                   !.ss58Format = UnpackFormat(dec[c].decodedBytes)])
    /\ Advance(c, "unpack", "decode.splice")
    /\ UNCHANGED <<arg, enc, scope, out>>

\* lines 22-32: ss58FormatLen and ss58Format from the first bytes
DecodeUnpack(c) ==
    /\ pc[c] = "decode.unpack"
    /\ dec' = Local(dec, c,
                    [dec[c] EXCEPT !.step = "unpack",
                                   !.ss58FormatLen = UnpackFormatLen(dec[c].decodedBytes),
                                   !.ss58Format = UnpackFormat(dec[c].decodedBytes)])
    /\ Advance(c, "unpack", "decode.reserved")
    /\ UNCHANGED <<arg, enc, scope, out>>

\* line 34: assert(!RESERVED_PREFIXES.includes(ss58Format), ...)
DecodeAssertReserved(c) ==
    /\ pc[c] = "decode.reserved"
    /\ IF Includes(scope.RESERVED_PREFIXES, dec[c].ss58Format)
       THEN /\ dec' = Local(dec, c, Throw(dec[c], "reserved",
                                          Thrown("Error", "Reserved prefix",
                                                 <<dec[c].ss58Format>>)))
            /\ Advance(c, "reserved", "thrown")
       ELSE /\ dec' = Local(dec, c, [dec[c] EXCEPT !.step = "reserved"])
            /\ Advance(c, "reserved", "decode.splice")
    /\ UNCHANGED <<arg, enc, scope, out>>

\* line 36: const checksumBytes = decodedBytes.splice(-CHECKSUM_BYTE_LENGTH)
DecodeSplice(c) ==
    /\ pc[c] = "decode.splice"
    /\ dec' = Local(dec, c,
                    [dec[c] EXCEPT !.step = "splice",
                                   !.checksumBytes =
                                       SpliceRemoved(dec[c].decodedBytes,
                                                     scope.CHECKSUM_BYTE_LENGTH),
                                   !.payload =
                                       SpliceRest(dec[c].decodedBytes,
                                                  scope.CHECKSUM_BYTE_LENGTH)])
    /\ Advance(c, "splice", "decode.slice")
    /\ UNCHANGED <<arg, enc, scope, out>>

\* line 37: const data = decodedBytes.slice(ss58FormatLen)
DecodeSlice(c) ==
    /\ pc[c] = "decode.slice"
    /\ dec' = Local(dec, c,
                    [dec[c] EXCEPT !.step = "slice",
                                   !.data = SliceFrom(dec[c].payload,
                                                      dec[c].ss58FormatLen)])
    /\ Advance(c, "slice", "decode.length")
    /\ UNCHANGED <<arg, enc, scope, out>>

\* line 39: assert(data.length === DATA_LENGTH, ...)
DecodeAssertLength(c) ==
    /\ pc[c] = "decode.length"
    /\ IF Len(dec[c].data) # scope.DATA_LENGTH
       THEN /\ dec' = Local(dec, c, Throw(dec[c], "length",
                                          Thrown("Error", "Invalid data length",
                                                 <<Len(dec[c].data)>>)))
            /\ Advance(c, "length", "thrown")
       ELSE /\ dec' = Local(dec, c, [dec[c] EXCEPT !.step = "length"])
            /\ Advance(c, "length", "decode.checksum")
    /\ UNCHANGED <<arg, enc, scope, out>>

\* line 41: const checksum = computeChecksum(decodedBytes)
DecodeChecksum(c) ==
    /\ pc[c] = "decode.checksum"
    /\ dec' = Local(dec, c,
                    [dec[c] EXCEPT !.step = "checksum",
                                   !.checksum = computeChecksum(dec[c].payload)])
    /\ Advance(c, "checksum", "decode.checksum0")
    /\ UNCHANGED <<arg, enc, scope, out>>

\* lines 43-46: assert(checksumBytes[0] === checksum[0], ...)
DecodeAssertChecksum0(c) ==
    /\ pc[c] = "decode.checksum0"
    /\ IF At(dec[c].checksumBytes, 0) # At(dec[c].checksum, 0)
       THEN /\ dec' = Local(dec, c, Throw(dec[c], "checksum0",
                                          Thrown("Error", "Invalid checksum",
                                                 << At(dec[c].checksumBytes, 0),
                                                    At(dec[c].checksum, 0) >>)))
            /\ Advance(c, "checksum0", "thrown")
       ELSE /\ dec' = Local(dec, c, [dec[c] EXCEPT !.step = "checksum0"])
            /\ Advance(c, "checksum0", "decode.checksum1")
    /\ UNCHANGED <<arg, enc, scope, out>>

\* lines 47-50: assert(checksumBytes[1] === checksum[1], ...)
DecodeAssertChecksum1(c) ==
    /\ pc[c] = "decode.checksum1"
    /\ IF At(dec[c].checksumBytes, 1) # At(dec[c].checksum, 1)
       THEN /\ dec' = Local(dec, c, Throw(dec[c], "checksum1",
                                          Thrown("Error", "Invalid checksum",
                                                 << At(dec[c].checksumBytes, 1),
                                                    At(dec[c].checksum, 1) >>)))
            /\ Advance(c, "checksum1", "thrown")
       ELSE /\ dec' = Local(dec, c, [dec[c] EXCEPT !.step = "checksum1"])
            /\ Advance(c, "checksum1", "decode.return")
    /\ UNCHANGED <<arg, enc, scope, out>>

\* lines 52-55: return { data: new Uint8Array(data), ss58Format }
DecodeReturn(c) ==
    /\ pc[c] = "decode.return"
    /\ dec' = Local(dec, c,
                    [dec[c] EXCEPT !.step = "return", !.returned = TRUE,
                                   !.value = Address(dec[c].data, dec[c].ss58Format)])
    /\ Advance(c, "return", "returned")
    /\ UNCHANGED <<arg, enc, scope, out>>

\* A length check that goes on to the reserved check and leaves the range
\* check out.
EncodeAssertLength_SkipsRange(c) ==
    /\ pc[c] = "encode"
    /\ LET fr == [EncodeNotCalled EXCEPT !.called = TRUE, !.address = arg[c].address,
                                         !.step = "length"]
       IN  IF Len(arg[c].address.data) # scope.DATA_LENGTH
           THEN /\ enc' = Local(enc, c, Throw(fr, "length",
                                              Thrown("RangeError", "Invalid data length",
                                                     <<Len(arg[c].address.data)>>)))
                /\ Advance(c, "length", "thrown")
           ELSE /\ enc' = Local(enc, c, fr)
                /\ Advance(c, "length", "encode.reserved")
    /\ UNCHANGED <<arg, dec, scope, out>>

\* line 59: assert(data.length === DATA_LENGTH, ..., RangeError)
EncodeAssertLength(c) ==
    /\ pc[c] = "encode"
    /\ LET fr == [EncodeNotCalled EXCEPT !.called = TRUE, !.address = arg[c].address,
                                         !.step = "length"]
       IN  IF Len(arg[c].address.data) # scope.DATA_LENGTH
           THEN /\ enc' = Local(enc, c, Throw(fr, "length",
                                              Thrown("RangeError", "Invalid data length",
                                                     <<Len(arg[c].address.data)>>)))
                /\ Advance(c, "length", "thrown")
           ELSE /\ enc' = Local(enc, c, fr)
                /\ Advance(c, "length", "encode.range")
    /\ UNCHANGED <<arg, dec, scope, out>>

\* line 60: assert(ss58Format >= 0 && ss58Format <= MAX_PREFIX, ..., RangeError)
EncodeAssertRange(c) ==
    /\ pc[c] = "encode.range"
    /\ IF ~(enc[c].address.ss58Format >= 0
              /\ enc[c].address.ss58Format <= scope.MAX_PREFIX)
       THEN /\ enc' = Local(enc, c, Throw(enc[c], "range",
                                          Thrown("RangeError", "Invalid prefix",
                                                 <<enc[c].address.ss58Format>>)))
            /\ Advance(c, "range", "thrown")
       ELSE /\ enc' = Local(enc, c, [enc[c] EXCEPT !.step = "range"])
            /\ Advance(c, "range", "encode.reserved")
    /\ UNCHANGED <<arg, dec, scope, out>>

\* line 61: assert(!RESERVED_PREFIXES.includes(ss58Format), ...)
EncodeAssertReserved(c) ==
    /\ pc[c] = "encode.reserved"
    /\ IF Includes(scope.RESERVED_PREFIXES, enc[c].address.ss58Format)
       THEN /\ enc' = Local(enc, c, Throw(enc[c], "reserved",
                                          Thrown("Error", "Reserved prefix",
                                                 <<enc[c].address.ss58Format>>)))
            /\ Advance(c, "reserved", "thrown")
       ELSE /\ enc' = Local(enc, c, [enc[c] EXCEPT !.step = "reserved"])
            /\ Advance(c, "reserved", "encode.pack")
    /\ UNCHANGED <<arg, dec, scope, out>>

\* lines 63-72: prefixBytes
EncodePack(c) ==
    /\ pc[c] = "encode.pack"
    /\ enc' = Local(enc, c,
                    [enc[c] EXCEPT !.step = "pack",
                                   !.prefixBytes = PackPrefix(enc[c].address.ss58Format)])
    /\ Advance(c, "pack", "encode.checksum")
    /\ UNCHANGED <<arg, dec, scope, out>>

\* line 74: const checksum = computeChecksum([...prefixBytes, ...data])
EncodeChecksum(c) ==
    /\ pc[c] = "encode.checksum"
    /\ enc' = Local(enc, c,
                    [enc[c] EXCEPT !.step = "checksum",
                                   !.checksum = computeChecksum(enc[c].prefixBytes
                                                                  \o enc[c].address.data)])
    /\ Advance(c, "checksum", "encode.return")
    /\ UNCHANGED <<arg, dec, scope, out>>

\* line 76: return base58.encode([...prefixBytes, ...data, ...checksum])
EncodeReturn(c) ==
    /\ pc[c] = "encode.return"
    /\ LET wire == enc[c].prefixBytes \o enc[c].address.data \o enc[c].checksum
       IN  enc' = Local(enc, c,
                        [enc[c] EXCEPT !.step = "return", !.returned = TRUE,
                                       !.wire = wire, !.text = Base58Encode(wire)])
    /\ Advance(c, "return", "returned")
    /\ UNCHANGED <<arg, dec, scope, out>>

CallsNext ==
    \E c \in Callers :
        \/ DecodeBase58(c)
        \/ DecodeUnpack(c)
        \/ DecodeAssertReserved(c)
        \/ DecodeSplice(c)
        \/ DecodeSlice(c)
        \/ DecodeAssertLength(c)
        \/ DecodeChecksum(c)
        \/ DecodeAssertChecksum0(c)
        \/ DecodeAssertChecksum1(c)
        \/ DecodeReturn(c)
        \/ EncodeAssertLength(c)
        \/ EncodeAssertRange(c)
        \/ EncodeAssertReserved(c)
        \/ EncodePack(c)
        \/ EncodeChecksum(c)
        \/ EncodeReturn(c)

\* Arguments of concurrent calls: an address encode accepts and one it
\* rejects, a text decode accepts and two it rejects.
CallSamples ==
    { Argument("encode", Address(Pattern(1, DATA_LENGTH), 64), <<>>),
      Argument("encode", Address(Pattern(1, DATA_LENGTH - 1), 46), <<>>),
      Argument("decode", NoAddress,
               Base58Encode(Wire(<<80, 0>>, Pattern(1, DATA_LENGTH), "good"))),
      Argument("decode", NoAddress, Base58Encode(<<64, 1, 2>>)),
      Argument("decode", NoAddress, <<"1", "O", "2">>) }

CallsInit ==
    /\ arg \in [Callers -> CallSamples]
    /\ pc = [c \in Callers |-> arg[c].op]
    /\ enc = [c \in Callers |-> EncodeNotCalled]
    /\ dec = [c \in Callers |-> DecodeNotCalled]
    /\ scope = ModuleScope
    /\ ran = [c \in Callers |-> <<>>]
    /\ out = NotEncoded

CallsSpec == CallsInit /\ [][CallsNext]_vars

\* One caller alone, over all the inputs; the other callers stay out.
Idle == Argument("idle", NoAddress, <<>>)

OneCaller(a) == [c \in Callers |-> IF c = 1 THEN a ELSE Idle]

StepInit ==
    /\ \/ \E d \in DataSamples, f \in FormatSamples :
             arg = OneCaller(Argument("encode", Address(d, f), <<>>))
       \/ \E p \in PrefixSamples, d \in DataSamples, form \in ChecksumForms :
             arg = OneCaller(Argument("decode", NoAddress,
                                      Base58Encode(Wire(p, d, form))))
       \/ \E w \in ShortWires :
             arg = OneCaller(Argument("decode", NoAddress, Base58Encode(w)))
       \/ \E t \in InvalidTexts :
             arg = OneCaller(Argument("decode", NoAddress, t))
    /\ pc = [c \in Callers |-> arg[c].op]
    /\ enc = [c \in Callers |-> EncodeNotCalled]
    /\ dec = [c \in Callers |-> DecodeNotCalled]
    /\ scope = ModuleScope
    /\ ran = [c \in Callers |-> <<>>]
    /\ out = NotEncoded

StepSpec == StepInit /\ [][CallsNext]_vars

(***************************************************************************)
(* A text on its way from encode to decode with one bit of its wire        *)
(* changed: the sender encodes a valid address, one bit of the prefix or   *)
(* of the data is flipped, the receiver decodes.  Flips reach every bit of *)
(* the prefix, of the first MaxFlipData data bytes and of the last data    *)
(* byte.                                                                   *)
(***************************************************************************)
MaxFlipData == 1

\* bytes with bit b of its k-th byte (1-based) flipped.
FlipBit(bytes, k, b) ==
    [bytes EXCEPT ![k] = IF (@ \div (2 ^ b)) % 2 = 1 THEN @ - 2 ^ b ELSE @ + 2 ^ b]

\* The bytes of a wire a flip reaches.
FlipBytes(wire, prefixLen) ==
    (1..(prefixLen + MaxFlipData)) \cup {Len(wire) - CHECKSUM_BYTE_LENGTH}

FlipInit ==
    /\ pc = "encode"
    /\ \E d \in { x \in DataSamples : Len(x) = DATA_LENGTH },
          f \in { x \in FormatSamples : x >= 0 /\ x <= MAX_PREFIX
                                          /\ ~Includes(RESERVED_PREFIXES, x) } :
          arg = Argument("flip", Address(d, f), <<>>)
    /\ enc = EncodeNotCalled
    /\ dec = DecodeNotCalled
    /\ scope = ModuleScope
    /\ ran = <<>>
    /\ out = NotEncoded

\* One bit of the wire changes before the text reaches the receiver.
Flip ==
    /\ pc = "encoded"
    /\ arg.op = "flip"
    /\ enc.returned
    /\ \E k \in FlipBytes(enc.wire, Len(enc.prefixBytes)), b \in 0..7 :
          arg' = [arg EXCEPT !.text = Base58Encode(FlipBit(enc.wire, k, b))]
    /\ pc' = "decode"
    /\ UNCHANGED <<enc, dec, scope, ran, out>>

FlipNext == Encode \/ Flip \/ Decode

FlipSpec == FlipInit /\ [][FlipNext]_vars

(***************************************************************************)
(* toEncodedAddress of the extrinsics package (generated/160/common.ts     *)
(* lines 73-114): the bytes of an address under the short name of the      *)
(* chain of the asset.  hexToBytes and bytesToHex of @chainflip/utils are  *)
(* taken by their plain meaning on well-formed input, and the callers here *)
(* pass hex strings that are well formed.                                  *)
(***************************************************************************)
assetToShortChain(asset) ==
    CASE asset \in {"Eth", "Flip", "Usdc", "Usdt"} -> "eth"
      [] asset \in {"ArbEth", "ArbUsdc"} -> "arb"
      [] asset = "Dot" -> "dot"
      [] asset \in {"Sol", "SolUsdc"} -> "sol"
      [] asset = "Btc" -> "btc"

\* address.startsWith('0x')
StartsWith0x(address) ==
    Len(address) >= 2 /\ address[1] = "0" /\ address[2] = "x"

HEX_DIGITS ==
    << "0", "1", "2", "3", "4", "5", "6", "7", "8", "9", "a", "b", "c", "d", "e", "f" >>

HexValue(c) == (CHOOSE i \in 1..Len(HEX_DIGITS) : HEX_DIGITS[i] = c) - 1

\* hexToBytes('0x...'): one byte for every two hex digits after the 0x.
hexToBytes(address) ==
    [i \in 1..((Len(address) - 2) \div 2) |->
        HexValue(address[2 * i + 1]) * 16 + HexValue(address[2 * i + 2])]

\* The digits (codes from 48), the capital letters (codes from 65) and the
\* small letters (codes from 97).
DIGITS ==
    << "0", "1", "2", "3", "4", "5", "6", "7", "8", "9" >>

CAPITALS ==
    << "A", "B", "C", "D", "E", "F", "G", "H", "I", "J", "K", "L", "M",
       "N", "O", "P", "Q", "R", "S", "T", "U", "V", "W", "X", "Y", "Z" >>

SMALLS ==
    << "a", "b", "c", "d", "e", "f", "g", "h", "i", "j", "k", "l", "m",
       "n", "o", "p", "q", "r", "s", "t", "u", "v", "w", "x", "y", "z" >>

IndexIn(chars, c) == CHOOSE k \in 1..Len(chars) : chars[k] = c

CharCode(c) ==
    IF Includes(DIGITS, c) THEN 47 + IndexIn(DIGITS, c)
    ELSE IF Includes(CAPITALS, c) THEN 64 + IndexIn(CAPITALS, c)
    ELSE 96 + IndexIn(SMALLS, c)

\* new TextEncoder().encode(address)
TextEncode(address) == [i \in 1..Len(address) |-> CharCode(address[i])]

\* bytesToHex(bytes): '0x' and two hex digits for every byte.
bytesToHex(bytes) ==
    <<"0", "x">> \o
    [i \in 1..(2 * Len(bytes)) |->
        IF i % 2 = 1 THEN HEX_DIGITS[(bytes[(i + 1) \div 2] \div 16) + 1]
        ELSE HEX_DIGITS[(bytes[i \div 2] % 16) + 1]]

\* case 'Sol', 'SolUsdc' (lines 99-105)
SolBytes(address) ==
    IF StartsWith0x(address) THEN Encoded("sol", hexToBytes(address))
    ELSE IF ~Base58Valid(address)
    THEN Rejected(Thrown("Error", "Invalid input", <<>>))
    ELSE Encoded("sol", Base58Decode(address))

\* The Dot case taking the decoded bytes whole, as the Sol case does.
DotBytes_AsSol(address) ==
    [SolBytes(address) EXCEPT !.key = IF @ = "" THEN "" ELSE "dot"]

\* case 'Dot' (lines 92-98)
DotBytes(address) ==
    IF StartsWith0x(address) THEN Encoded("dot", hexToBytes(address))
    ELSE LET decoded == decode(address)
         IN  IF decoded.returned THEN Encoded("dot", decoded.value.data)
             ELSE Rejected(decoded.error)

toEncodedAddress(address, asset) ==
    CASE asset \in {"ArbEth", "ArbUsdc", "Eth", "Flip", "Usdc", "Usdt"} ->
            Encoded(assetToShortChain(asset), hexToBytes(address))
      [] asset = "Dot" ->
            [DotBytes(address) EXCEPT !.key =
                IF @ = "" THEN "" ELSE assetToShortChain(asset)]
      [] asset \in {"Sol", "SolUsdc"} ->
            [SolBytes(address) EXCEPT !.key =
                IF @ = "" THEN "" ELSE assetToShortChain(asset)]
      [] asset = "Btc" ->
            Encoded(assetToShortChain(asset), bytesToHex(TextEncode(address)))
      [] OTHER -> Rejected(Thrown("Error", "Unknown asset", <<asset>>))

\* The caller's arguments of toEncodedAddress.
AddressCall(address, asset) ==
    [op |-> "toEncodedAddress", address |-> NoAddress, text |-> address, asset |-> asset]

HexSamples ==
    { <<"0", "x">>, <<"0", "x", "0", "1">>, <<"0", "x", "a", "f", "1", "0", "7", "e">> }

EncodedAddressInit ==
    /\ pc = "toEncodedAddress"
    /\ \/ \E p \in PrefixSamples, d \in DataSamples, form \in ChecksumForms :
             arg = AddressCall(Base58Encode(Wire(p, d, form)), "Dot")
       \/ \E w \in ShortWires, asset \in {"Dot", "Sol", "SolUsdc", "Btc"} :
             arg = AddressCall(Base58Encode(w), asset)
       \/ \E t \in InvalidTexts, asset \in {"Dot", "Sol", "Btc"} :
             arg = AddressCall(t, asset)
       \/ \E t \in HexSamples,
             asset \in {"Eth", "Flip", "Usdc", "Usdt", "ArbEth", "ArbUsdc",
                        "Dot", "Sol", "SolUsdc", "Btc"} :
             arg = AddressCall(t, asset)
    /\ enc = EncodeNotCalled
    /\ dec = DecodeNotCalled
    /\ scope = ModuleScope
    /\ ran = <<>>
    /\ out = NotEncoded

ToEncodedAddress ==
    /\ pc = "toEncodedAddress"
    /\ out' = toEncodedAddress(arg.text, arg.asset)
    /\ pc' = "done"
    /\ UNCHANGED <<arg, enc, dec, scope, ran>>

EncodedAddressNext == ToEncodedAddress

EncodedAddressSpec == EncodedAddressInit /\ [][EncodedAddressNext]_vars

(***************************************************************************)
(* Failure kinds as the thrown messages name them.                         *)
(***************************************************************************)
InvalidBase58 == "Invalid input"
ReservedFormat == "Reserved prefix"
InvalidDataLength == "Invalid data length"
InvalidFormatRange == "Invalid prefix"
ChecksumMismatch == "Invalid checksum"

\* A valid address: 32 data bytes, format in [0,16383] other than 46 and 47.
ValidAddress(a) ==
    /\ Len(a.data) = 32
    /\ a.ss58Format \in 0..16383
    /\ a.ss58Format \notin {46, 47}

\* The prefix length selected by bit 6 of the first byte (1 when there is
\* no first byte).
PrefixLenOf(bytes) ==
    IF Len(bytes) > 0 /\ (bytes[1] \div 64) % 2 = 1 THEN 2 ELSE 1

\* C1 -- Round-trip: for every address with data of exactly 32 bytes and a
\* format in [0,16383] other than 46 and 47, encode succeeds, and decode of
\* the text encode returned succeeds and returns the same data bytes and the
\* same format.
C1_RoundTrip ==
    (arg.op = "encode" /\ ValidAddress(arg.address)) =>
        /\ enc.called => enc.returned
        /\ dec.called =>
              /\ dec.input = enc.text
              /\ dec.returned
              /\ dec.value.data = arg.address.data
              /\ dec.value.ss58Format = arg.address.ss58Format

\* A valid address with an extended-form format has been encoded and the
\* text decoded.
C1_Witness ==
    /\ arg.op = "encode"
    /\ pc = "done"
    /\ arg.address = Address(Pattern(1, 32), 16383)
    /\ dec.called

\* C2 -- Prefix inverse: for every format in [0,16383], unpacking (as decode
\* does) the prefix bytes that encode packs for that format yields exactly
\* that format, and consumes exactly as many bytes as were packed.
C2_PrefixInverse ==
    (arg.op = "prefix" /\ pc = "unpacked") =>
        /\ dec.ss58Format = arg.address.ss58Format
        /\ dec.ss58FormatLen = Len(enc.prefixBytes)

\* The largest format has been packed and unpacked.
C2_Witness ==
    /\ arg.op = "prefix"
    /\ pc = "unpacked"
    /\ arg.address.ss58Format = 16383
    /\ Len(enc.prefixBytes) = 2

\* C3 -- Prefix width and wire length: encode emits a 1-byte prefix for every
\* format in [0,63] and a 2-byte prefix for every format in [64,16383], so
\* the bytes handed to the base-58 encoder are exactly 35 in the first case
\* and 36 in the second.
C3_PrefixWidth ==
    enc.returned =>
        LET f == enc.address.ss58Format
        IN  /\ f \in 0..63 => Len(enc.prefixBytes) = 1 /\ Len(enc.wire) = 35
            /\ f \in 64..16383 => Len(enc.prefixBytes) = 2 /\ Len(enc.wire) = 36
            /\ SubSeq(enc.wire, 1, Len(enc.prefixBytes)) = enc.prefixBytes

\* encode has returned for format 64, the first extended-form format.
C3_Witness ==
    /\ arg.op = "encode"
    /\ pc = "encoded"
    /\ enc.returned
    /\ enc.address.ss58Format = 64

\* C4 -- The prefix mapping is bijective between formats and wire forms: for
\* every text that decode accepts, encoding the returned address reproduces
\* the same wire bytes and the same text.
C4_ReEncodeSameWire ==
    (arg.op = "decode" /\ pc = "done") =>
        /\ enc.returned
        /\ enc.wire = dec.decodedBytes
        /\ enc.text = arg.text

\* C5 (as stated) -- Reserved rejection: encode called with format 46 or 47,
\* for every data argument, and decode of any text whose unpacked format is
\* 46 or 47 always fail with ReservedFormat.
C5_ReservedAlways ==
    /\ (enc.called /\ enc.address.ss58Format \in {46, 47}) =>
          (~enc.returned /\ enc.error.message = ReservedFormat)
    /\ (dec.called /\ dec.step # "base58" /\ dec.ss58Format \in {46, 47}) =>
          (~dec.returned /\ dec.error.message = ReservedFormat)

\* C5 (amended) -- Reserved rejection: encode called with format 46 or 47 and
\* data of exactly 32 bytes, and decode of any text whose unpacked format is
\* 46 or 47 (in either prefix form, for every remaining byte content, also
\* with a valid checksum), always fail with ReservedFormat.
C5_ReservedRejected ==
    /\ (enc.called /\ enc.address.ss58Format \in {46, 47}
          /\ Len(enc.address.data) = 32) =>
          (~enc.returned /\ enc.error.message = ReservedFormat)
    /\ (dec.called /\ dec.step # "base58" /\ dec.ss58Format \in {46, 47}) =>
          (~dec.returned /\ dec.error.message = ReservedFormat)

\* decode has run on a wire of valid length and valid checksum whose two
\* prefix bytes carry the reserved format 47.
C5_Witness ==
    /\ dec.called
    /\ dec.decodedBytes =
          Wire(<<75, 192>>, Pattern(1, 32), "good")
    /\ dec.ss58Format = 47

\* C6 (as stated) -- Length rejection: decoding a text whose decoded byte
\* length is prefixLen + 2 or prefixLen + 34 fails with InvalidDataLength.
C6_LengthRejectionAt34 ==
    (dec.called /\ dec.step # "base58"
        /\ Len(dec.decodedBytes) \in { PrefixLenOf(dec.decodedBytes) + 2,
                                       PrefixLenOf(dec.decodedBytes) + 34 }) =>
        (~dec.returned /\ dec.error.message = InvalidDataLength)

\* C6 (amended) -- Length rejection: decoding a text whose unpacked format is
\* not 46 or 47 and whose decoded byte length is prefixLen + 2 (empty data)
\* or prefixLen + 36 (2 extra data bytes) fails with InvalidDataLength.
C6_LengthRejection ==
    (dec.called /\ dec.step # "base58"
        /\ dec.ss58Format \notin {46, 47}
        /\ Len(dec.decodedBytes) \in { PrefixLenOf(dec.decodedBytes) + 2,
                                       PrefixLenOf(dec.decodedBytes) + 36 }) =>
        (~dec.returned /\ dec.error.message = InvalidDataLength)

\* decode has run on 38 decoded bytes with a 2-byte prefix: 34 data bytes
\* between the prefix and a checksum that is valid for them.
C6_Witness ==
    /\ dec.called
    /\ dec.decodedBytes =
          Wire(<<80, 0>>, Pattern(1, 34), "good")

\* C7 -- For every decoded byte sequence with a non-reserved format, decode
\* fails with InvalidDataLength whenever the bytes left after removing the
\* prefix from the front and 2 checksum bytes from the back are not exactly
\* 32, also for inputs of 0, 1 or 2 bytes; the failure is always this
\* classified one.
C7_InvalidDataLength ==
    (dec.called /\ dec.step # "base58"
        /\ dec.ss58Format \notin {46, 47}
        /\ Len(dec.decodedBytes) - PrefixLenOf(dec.decodedBytes) - 2 # 32) =>
        /\ ~dec.returned
        /\ dec.error.message = InvalidDataLength
        /\ dec.step = "length"

\* decode has run on a single decoded byte that announces a 2-byte prefix.
C7_Witness ==
    /\ dec.called
    /\ dec.decodedBytes = <<75>>

\* The two checksum bytes decode must find at the end of the decoded bytes.
ExpectedChecksum(bytes) == computeChecksum(SubSeq(bytes, 1, Len(bytes) - 2))

FirstChecksumByteMatches(bytes) ==
    bytes[Len(bytes) - 1] = ExpectedChecksum(bytes)[1]

SecondChecksumByteMatches(bytes) ==
    bytes[Len(bytes)] = ExpectedChecksum(bytes)[2]

\* Decoded bytes of valid length with a non-reserved format.
ChecksumStage ==
    /\ dec.called
    /\ dec.step # "base58"
    /\ dec.ss58Format \notin {46, 47}
    /\ Len(dec.decodedBytes) = PrefixLenOf(dec.decodedBytes) + 34

\* C8 -- Checksum verification: for a wire payload of valid length and
\* non-reserved format, decode fails with ChecksumMismatch if the first
\* trailing byte differs from the first recomputed checksum byte, and also if
\* only the second differs; it succeeds only when both bytes are equal.
C8_ChecksumBothBytes ==
    ChecksumStage =>
        LET m0 == FirstChecksumByteMatches(dec.decodedBytes)
            m1 == SecondChecksumByteMatches(dec.decodedBytes)
        IN  /\ ~m0 => (~dec.returned /\ dec.error.message = ChecksumMismatch)
            /\ ~m1 => (~dec.returned /\ dec.error.message = ChecksumMismatch)
            /\ dec.returned <=> (m0 /\ m1)

\* decode has run on a valid-length wire whose first checksum byte is right
\* and whose second is wrong.
C8_Witness ==
    /\ ChecksumStage
    /\ FirstChecksumByteMatches(dec.decodedBytes)
    /\ ~SecondChecksumByteMatches(dec.decodedBytes)

\* C9 -- Address invariant on decode output: every address that decode
\* returns has data of exactly 32 bytes and a format that is an integer in
\* [0,16383] and is neither 46 nor 47.
C9_AddressInvariant ==
    dec.returned =>
        /\ Len(dec.value.data) = 32
        /\ \A i \in 1..Len(dec.value.data) : dec.value.data[i] \in 0..255
        /\ dec.value.ss58Format \in 0..16383
        /\ dec.value.ss58Format \notin {46, 47}

\* decode has returned an address for a wire whose prefix bytes are both 255.
C9_Witness ==
    /\ dec.returned
    /\ dec.decodedBytes[1] = 255
    /\ dec.decodedBytes[2] = 255

\* C10 -- Encode preconditions: encode returns a string if and only if data
\* has exactly 32 bytes, 0 <= format <= 16383 and format is not 46 or 47;
\* violating only the length yields InvalidDataLength, only the range
\* InvalidFormatRange, only the reserved rule ReservedFormat, and the three
\* failures differ from one another.
C10_EncodePreconditions ==
    enc.called =>
        LET a == enc.address
            okLength == Len(a.data) = 32
            okRange == a.ss58Format >= 0 /\ a.ss58Format <= 16383
            okReserved == a.ss58Format \notin {46, 47}
        IN  /\ enc.returned <=> (okLength /\ okRange /\ okReserved)
            /\ enc.returned => Len(enc.text) > 0
            /\ (~okLength /\ okRange /\ okReserved) =>
                  enc.error.message = InvalidDataLength
            /\ (okLength /\ ~okRange /\ okReserved) =>
                  enc.error.message = InvalidFormatRange
            /\ (okLength /\ okRange /\ ~okReserved) =>
                  enc.error.message = ReservedFormat
            /\ ~enc.returned =>
                  /\ enc.error.message \in
                        {InvalidDataLength, InvalidFormatRange, ReservedFormat}
                  /\ enc.text = <<>>
            /\ Cardinality({InvalidDataLength, InvalidFormatRange, ReservedFormat}) = 3

\* encode has been called with 32 data bytes and the first format above the
\* range.
C10_Witness ==
    /\ enc.called
    /\ Len(enc.address.data) = 32
    /\ enc.address.ss58Format = 16384

\* What a caller can tell of a thrown error: its constructor and the message
\* text in front of the interpolated value.
KindOf(error) == <<error.name, error.message>>

\* The trigger of each failure of decode, read off the text decode was given.
DecodeTrigger(d) ==
    IF ~Base58Valid(d.input) THEN InvalidBase58
    ELSE IF d.ss58Format \in {46, 47} THEN ReservedFormat
    ELSE IF Len(d.decodedBytes) - PrefixLenOf(d.decodedBytes) - 2 # 32
    THEN InvalidDataLength
    ELSE ChecksumMismatch

\* C11 -- Distinct failure kinds: every failure raised by decode is exactly
\* one of the kinds InvalidBase58, ReservedFormat, InvalidDataLength and
\* ChecksumMismatch, the one of its trigger, and the same trigger (reserved
\* format, invalid data length) produces the same kind, constructor and
\* message alike, whether encode raises it or decode.
C11_FailureKinds ==
    /\ (dec.called /\ ~dec.returned) =>
          /\ dec.error.message \in
                {InvalidBase58, ReservedFormat, InvalidDataLength, ChecksumMismatch}
          /\ dec.error.message = DecodeTrigger(dec)
    /\ (enc.called /\ Len(enc.address.data) = 32
          /\ enc.address.ss58Format \in {46, 47}) =>
          KindOf(enc.error) = KindOf(decode(Base58Encode(<<46>>)).error)
    /\ (enc.called /\ Len(enc.address.data) # 32) =>
          KindOf(enc.error) = KindOf(decode(Base58Encode(<<0>>)).error)

\* The call of caller c is over: it has returned or thrown.
Over(c) == pc[c] \in {"returned", "thrown"}

\* C12 -- Purity under concurrency: in any interleaving of the statements of
\* any number of encode and decode calls, each call ends with the same result
\* or the same failure (and the same locals) as the call run alone on the
\* same argument, and a step of one call leaves the locals of every other
\* call as they were.
C12_Purity ==
    /\ [](\A c \in Callers :
            /\ arg[c].op = "decode" =>
                  /\ enc[c] = EncodeNotCalled
                  /\ Over(c) => dec[c] = decode(arg[c].text)
            /\ arg[c].op = "encode" =>
                  /\ dec[c] = DecodeNotCalled
                  /\ Over(c) => enc[c] = encode(arg[c].address))
    /\ [][\A c \in Callers :
            pc'[c] = pc[c] =>
                (enc'[c] = enc[c] /\ dec'[c] = dec[c] /\ ran'[c] = ran[c])]_vars

\* A decode call has returned while an encode call of another caller is
\* between its packing and its hashing.
C12_Witness ==
    /\ arg[1].op = "decode"
    /\ pc[1] = "returned"
    /\ dec[1].returned
    /\ arg[2].op = "encode"
    /\ pc[2] = "encode.checksum"

\* C13 -- No side effects, also on failure: through any sequence of
\* successful or failing encode and decode calls the callers' data arrays,
\* formats and texts stay as they were, the module constants stay checksum
\* length 2, data length 32, max simple prefix 63, max prefix 16383 and
\* reserved set {46, 47}, and a call that has thrown has delivered no address
\* and no text.
C13_NoSideEffects ==
    /\ [](/\ scope = [ CHECKSUM_BYTE_LENGTH |-> 2, DATA_LENGTH |-> 32,
                       MAX_SIMPLE_PREFIX |-> 63, MAX_PREFIX |-> 16383,
                       RESERVED_PREFIXES |-> <<46, 47>> ]
          /\ \A c \in Callers :
                pc[c] = "thrown" =>
                    /\ dec[c].value = NoAddress /\ ~dec[c].returned
                    /\ enc[c].text = <<>> /\ ~enc[c].returned)
    /\ [][arg' = arg /\ scope' = scope]_vars

\* A decode call has thrown after its splice and an encode call of another
\* caller has returned its text.
C13_Witness ==
    /\ arg[1].op = "decode"
    /\ pc[1] = "thrown"
    /\ dec[1].step = "length"
    /\ arg[2].op = "encode"
    /\ pc[2] = "returned"
    /\ Len(enc[2].text) > 0

\* The receiver has decoded a text whose wire differs in one bit of the
\* prefix or data from the wire encode produced.
FlipDecoded == arg.op = "flip" /\ pc = "decoded"

FormatOf(bytes) ==
    LET b0 == IF Len(bytes) >= 1 THEN bytes[1] ELSE 0
        b1 == IF Len(bytes) >= 2 THEN bytes[2] ELSE 0
    IN  IF Len(bytes) = 0 THEN undefined
        ELSE IF (b0 \div 64) % 2 = 0 THEN b0
        ELSE (b0 % 64) * 4 + (b1 \div 64) + (b1 % 64) * 256

\* The rules a decoded wire breaks, each on its own.
BreaksReserved(w) == FormatOf(w) \in {46, 47}
BreaksLength(w) == Len(w) - PrefixLenOf(w) - 2 # 32
BreaksChecksum0(w) == Len(w) >= 2 /\ ~FirstChecksumByteMatches(w)
BreaksChecksum1(w) == Len(w) >= 2 /\ ~SecondChecksumByteMatches(w)

\* The statements of decode in the order of the source.
DecodeOrder ==
    << "base58", "unpack", "reserved", "splice", "slice", "length",
       "checksum", "checksum0", "checksum1", "return" >>

\* The first n statements of decode up to and with the statement stmt.
UpTo(order, stmt) ==
    SubSeq(order, 1, CHOOSE i \in 1..Len(order) : order[i] = stmt)

IsPrefix(s, t) == Len(s) <= Len(t) /\ SubSeq(t, 1, Len(s)) = s

\* The check of decode that fails first on the text, "return" when none.
FirstBroken(text) ==
    IF ~Base58Valid(text) THEN "base58"
    ELSE LET w == Base58Decode(text)
         IN  IF BreaksReserved(w) THEN "reserved"
             ELSE IF BreaksLength(w) THEN "length"
             ELSE IF BreaksChecksum0(w) THEN "checksum0"
             ELSE IF BreaksChecksum1(w) THEN "checksum1"
             ELSE "return"

\* C15 -- Decode fail-fast order: decode runs its checks in the order base-58
\* decoding, reserved format, data length, checksum byte 0, checksum byte 1;
\* the failure it reports is that of the first check in this order the input
\* breaks, whatever later rules the input breaks as well, and after the
\* failing check no further statement of the call runs.
C15_DecodeFailFast ==
    \A c \in Callers :
        arg[c].op = "decode" =>
            /\ IsPrefix(ran[c], DecodeOrder)
            /\ Over(c) =>
                  LET first == FirstBroken(arg[c].text)
                  IN  /\ dec[c].step = first
                      /\ ran[c] = UpTo(DecodeOrder, first)
                      /\ dec[c].returned <=> first = "return"
                      /\ first = "base58" => dec[c].error.message = InvalidBase58
                      /\ first = "reserved" => dec[c].error.message = ReservedFormat
                      /\ first = "length" => dec[c].error.message = InvalidDataLength
                      /\ first \in {"checksum0", "checksum1"} =>
                            dec[c].error.message = ChecksumMismatch

\* decode has thrown ReservedFormat on a wire that also has the wrong length
\* and two wrong checksum bytes.
C15_Witness ==
    /\ arg[1].op = "decode"
    /\ pc[1] = "thrown"
    /\ dec[1].step = "reserved"
    /\ BreaksLength(dec[1].decodedBytes)
    /\ BreaksChecksum0(dec[1].decodedBytes)
    /\ BreaksChecksum1(dec[1].decodedBytes)

\* The first two hash bytes of the 7-byte tag 'SS58PRE' followed by bytes.
TagChecksum(bytes) ==
    SubSeq(blake2b(<<83, 83, 53, 56, 80, 82, 69>> \o bytes), 1, 2)

\* C16 -- Decode acceptance: decode returns an address if and only if
\* base-58 decoding succeeds, the unpacked format is not 46 or 47, the
\* decoded byte length is exactly prefixLen + 34 and the last two bytes are
\* the first two hash bytes of the tag followed by all bytes before them; the
\* returned data is then the 32 bytes after the prefix and the returned
\* format the unpacked format.
C16_DecodeAcceptance ==
    dec.called =>
        LET w == dec.decodedBytes
            plen == PrefixLenOf(w)
            accepted ==
                /\ Base58Valid(dec.input)
                /\ FormatOf(w) \notin {46, 47}
                /\ Len(w) = plen + 34
                /\ SubSeq(w, Len(w) - 1, Len(w)) = TagChecksum(SubSeq(w, 1, Len(w) - 2))
        IN  /\ Base58Valid(dec.input) => w = Base58Decode(dec.input)
            /\ dec.returned <=> accepted
            /\ dec.returned =>
                  /\ dec.value.data = SubSeq(w, plen + 1, plen + 32)
                  /\ dec.value.ss58Format = FormatOf(w)
            /\ ~dec.returned => dec.value = NoAddress

\* decode has returned the address of a text whose wire has the two prefix
\* bytes of format 64.
C16_Witness ==
    /\ arg.op = "decode"
    /\ dec.returned
    /\ SubSeq(dec.decodedBytes, 1, 2) = <<80, 0>>
    /\ dec.value.ss58Format = 64

\* C17 -- Encode wire layout: for every valid address the bytes handed to the
\* base-58 encoder are the prefix bytes, then the 32 data bytes in order,
\* then 2 checksum bytes, the first 2 bytes of the hash of the 7-byte tag
\* 'SS58PRE' followed by the prefix bytes and the data.
C17_WireLayout ==
    (enc.called /\ ValidAddress(enc.address)) =>
        LET p == enc.prefixBytes
            n == Len(p)
        IN  /\ enc.returned
            /\ n \in {1, 2}
            /\ FormatOf(p) = enc.address.ss58Format
            /\ Len(enc.wire) = n + 32 + 2
            /\ SubSeq(enc.wire, 1, n) = p
            /\ SubSeq(enc.wire, n + 1, n + 32) = enc.address.data
            /\ SubSeq(enc.wire, n + 33, n + 34) = TagChecksum(p \o enc.address.data)
            /\ enc.checksum = TagChecksum(p \o enc.address.data)
            /\ enc.text = Base58Encode(enc.wire)

\* encode has returned for a one-byte prefix and data that is not all zero.
C17_Witness ==
    /\ arg.op = "encode"
    /\ enc.returned
    /\ enc.address = Address(Pattern(1, 32), 42)
    /\ Len(enc.wire) = 35

\* C18 -- Checksum domain: in encode and in decode the checksum is computed
\* over exactly the prefix bytes followed by the data bytes; decode removes
\* the two trailing bytes from the decoded bytes before it recomputes the
\* checksum, so its hash input holds no checksum byte and is the input encode
\* hashes for the same address.
C18_ChecksumDomain ==
    /\ enc.returned =>
          enc.checksum = TagChecksum(enc.prefixBytes \o enc.address.data)
    /\ (dec.called /\ dec.step \in {"checksum0", "checksum1", "return"}) =>
          LET w == dec.decodedBytes
          IN  /\ dec.payload = SubSeq(w, 1, Len(w) - 2)
              /\ dec.payload = SubSeq(w, 1, PrefixLenOf(w)) \o dec.data
              /\ dec.checksum = TagChecksum(dec.payload)
    /\ (enc.returned /\ dec.returned /\ dec.value = enc.address) =>
          dec.payload = enc.prefixBytes \o enc.address.data

\* C19 -- Prefix bit layout: for a format up to 63 encode emits the single
\* byte format, whose top two bits are 00; for every format in [64,16383] it
\* emits byte0 = ((format & 0xFC) >> 2) | 0x40, which is bits 2..7 of the
\* format plus 64, and byte1 = (format >> 8) | ((format & 0x03) << 6), which
\* is bits 8..13 of the format plus bits 0..1 times 64; both are within
\* 0..255 and byte0 is within 0x40..0x7F.
C19_PrefixBitLayout ==
    (arg.op = "prefix" /\ pc \in {"packed", "unpacked"}) =>
        LET f == arg.address.ss58Format
            p == enc.prefixBytes
        IN  /\ f <= 63 => (p = <<f>> /\ f \div 64 = 0)
            /\ f \in 64..16383 =>
                  /\ Len(p) = 2
                  /\ p[1] = ((f % 256) \div 4) + 64
                  /\ p[2] = (f \div 256) + (f % 4) * 64
                  /\ p[1] \in 64..127
                  /\ p[2] \in 0..255

\* Format 174 has been packed into the two bytes 107 and 128.
C19_Witness ==
    /\ arg.op = "prefix"
    /\ pc = "packed"
    /\ arg.address.ss58Format = 174
    /\ enc.prefixBytes = <<107, 128>>

\* C20 -- Unpack form selection: decode chooses the prefix form from bit 6 of
\* the first decoded byte only: unset gives format = byte0 and consumed
\* length 1, set gives consumed length 2 and format = ((byte0 & 0x3F) << 2) |
\* (byte1 >> 6) | ((byte1 & 0x3F) << 8); for every pair of bytes in 0..255
\* the format is at most 16383.
C20_UnpackFormSelection ==
    (arg.op = "unpack" /\ pc = "unpacked") =>
        LET b0 == dec.decodedBytes[1]
            b1 == dec.decodedBytes[2]
            bit6 == (b0 \div 64) % 2
        IN  /\ bit6 = 0 => (dec.ss58FormatLen = 1 /\ dec.ss58Format = b0)
            /\ bit6 = 1 =>
                  /\ dec.ss58FormatLen = 2
                  /\ dec.ss58Format = (b0 % 64) * 4 + (b1 \div 64) + (b1 % 64) * 256
            /\ dec.ss58Format \in 0..16383

\* The two bytes 255 and 255 have been unpacked: bits 6 and 7 of the first
\* byte are both set.
C20_Witness ==
    /\ arg.op = "unpack"
    /\ pc = "unpacked"
    /\ dec.decodedBytes = <<255, 255>>
    /\ dec.ss58FormatLen = 2
    /\ dec.ss58Format = 16383

\* The statements of encode in the order of the source.
EncodeOrder == << "length", "range", "reserved", "pack", "checksum", "return" >>

\* The precondition of encode that fails first on the address, "return" when
\* none.
FirstBrokenEncode(a) ==
    IF Len(a.data) # 32 THEN "length"
    ELSE IF a.ss58Format < 0 \/ a.ss58Format > 16383 THEN "range"
    ELSE IF a.ss58Format \in {46, 47} THEN "reserved"
    ELSE "return"

\* C21 -- Encode precondition order: encode checks the data length first,
\* then the format range, then the reserved set, and fails with the first of
\* these its argument breaks: data of the wrong length with any format
\* reports InvalidDataLength, a format outside the range is never reported
\* as ReservedFormat; the prefix is packed and the hash computed only after
\* all three checks have passed.
C21_EncodeOrder ==
    \A c \in Callers :
        arg[c].op = "encode" =>
            /\ IsPrefix(ran[c], EncodeOrder)
            /\ (enc[c].prefixBytes # <<>> \/ enc[c].checksum # <<>>) =>
                  (IsPrefix(<<"length", "range", "reserved">>, ran[c])
                     /\ FirstBrokenEncode(arg[c].address) = "return")
            /\ Over(c) =>
                  LET first == FirstBrokenEncode(arg[c].address)
                  IN  /\ enc[c].step = first
                      /\ ran[c] = UpTo(EncodeOrder, first)
                      /\ enc[c].returned <=> first = "return"
                      /\ first = "length" =>
                            enc[c].error.message = InvalidDataLength
                      /\ first = "range" =>
                            enc[c].error.message = InvalidFormatRange
                      /\ first = "reserved" =>
                            enc[c].error.message = ReservedFormat
                      /\ ~enc[c].returned =>
                            (enc[c].prefixBytes = <<>> /\ enc[c].checksum = <<>>)

\* encode has thrown InvalidDataLength for data of the wrong length with a
\* reserved format.
C21_Witness ==
    /\ arg[1].op = "encode"
    /\ pc[1] = "thrown"
    /\ Len(arg[1].address.data) = 30
    /\ arg[1].address.ss58Format = 46
    /\ enc[1].error.message = InvalidDataLength
    /\ ran[1] = <<"length">>

\* The message of the failure decode raises at a check.
MessageAt(check) ==
    CASE check = "base58" -> InvalidBase58
      [] check = "reserved" -> ReservedFormat
      [] check = "length" -> InvalidDataLength
      [] check \in {"checksum0", "checksum1"} -> ChecksumMismatch

\* C22 -- Downstream use for Polkadot: toEncodedAddress(address, 'Dot') with
\* an address that does not start with '0x' returns {dot: d} where d is the
\* 32 data bytes ss58 decode recovers from the address, whatever non-reserved
\* format the address carries (the format is not in the result), and when
\* decode rejects the address it raises the failure of decode and returns
\* nothing.
C22_DotAddress ==
    (pc = "done" /\ arg.op = "toEncodedAddress" /\ arg.asset = "Dot"
        /\ ~(Len(arg.text) >= 2 /\ arg.text[1] = "0" /\ arg.text[2] = "x")) =>
        LET first == FirstBroken(arg.text)
        IN  /\ out.called
            /\ out.returned <=> first = "return"
            /\ out.returned =>
                  LET w == Base58Decode(arg.text)
                      plen == PrefixLenOf(w)
                  IN  /\ out.key = "dot"
                      /\ out.value = SubSeq(w, plen + 1, plen + 32)
                      /\ Len(out.value) = 32
                      /\ out.error = NoError
            /\ ~out.returned =>
                  /\ out.key = "" /\ out.value = <<>>
                  /\ out.error.name = "Error"
                  /\ out.error.message = MessageAt(first)

\* toEncodedAddress has returned the data of a Dot address whose prefix is
\* the two bytes of format 64.
C22_Witness ==
    /\ pc = "done"
    /\ arg.op = "toEncodedAddress"
    /\ arg.asset = "Dot"
    /\ arg.text = Base58Encode(Wire(<<80, 0>>, Pattern(1, 32), "good"))
    /\ out.returned
    /\ out.value = Pattern(1, 32)

====
